---- MODULE Spec2Model ----
(***************************************************************************)
(* Model of the IMD memory library (src/memory_library.h): operations on   *)
(* the byte window of a fixed-size value.  A window is a function from the *)
(* cell indices 0..N-1 to byte values 0..255, N = sizeof(T).  Containers   *)
(* and iterator ranges are sequences.  Text written to std::cout is a      *)
(* string; the stream's sticky formatting flags are part of the state.     *)
(***************************************************************************)
EXTENDS Integers, Sequences, FiniteSets, TLC

(* ------------------------------ bounds --------------------------------- *)

\* largest sizeof(T) of the value types explored
MaxN == 4
\* how far past the last valid index / bit count an argument may lie
MaxOver == 2
\* elements the caller may append to a container before restoring from it
MaxExtra == 1
\* mutating calls made one after another on the same value
MaxCalls == 2
\* largest sizeof(T) of the values on which shifts are chained
MaxChainN == 2

\* byte values the explored windows and inputs are built from
\* (58 and 1 are the low bytes of 314; 129 has bits 0 and 7 set)
ByteVals == {0, 1, 58, 129}

(* --------------------------- program constants ------------------------- *)

BITS_PER_BYTE == 8

(* ------------------------- unsigned char arithmetic -------------------- *)

Pow2(n) == 2 ^ n

\* (x >> j) & 1
BitOf(x, j) == (x \div Pow2(j)) % 2

\* x | y on non-negative ints, evaluated bit by bit
RECURSIVE BitOr(_, _)
BitOr(x, y) ==
    IF x = 0 THEN y
    ELSE IF y = 0 THEN x
    ELSE (IF (x % 2 = 1) \/ (y % 2 = 1) THEN 1 ELSE 0)
         + 2 * BitOr(x \div 2, y \div 2)

\* x & ~m on an unsigned char promoted to int, for a one-bit mask m
RECURSIVE BitAndNot(_, _)
BitAndNot(x, m) ==
    IF x = 0 THEN 0
    ELSE (IF (x % 2 = 1) /\ (m % 2 = 0) THEN 1 ELSE 0)
         + 2 * BitAndNot(x \div 2, m \div 2)

\* static_cast<std::byte>(int) / assignment to unsigned char: keep 8 bits
ToByte(x) == x % 256

(* ------------------------------- windows ------------------------------- *)

\* sizeof(T) of the value a window belongs to
SizeOf(ptr) == Cardinality(DOMAIN ptr)

\* bit_count<T>()
bit_count(ptr) == SizeOf(ptr) * BITS_PER_BYTE

Windows(n) == [0 .. n - 1 -> ByteVals]

AllWindows == UNION {Windows(n) : n \in 1 .. MaxN}

\* the bit at global bit index g: byte g / 8, bit-in-byte g % 8
BitAt(ptr, g) == BitOf(ptr[g \div BITS_PER_BYTE], g % BITS_PER_BYTE)

\* FillZero stopping one cell early: std::fill(ptr, ptr + sizeof(T) - 1, 0)
FillZero_OneCellShort(ptr) ==
    [i \in DOMAIN ptr |-> IF i < SizeOf(ptr) - 1 THEN 0 ELSE ptr[i]]

\* std::fill(ptr, ptr + sizeof(T), std::byte{0})
FillZero(ptr) == [i \in DOMAIN ptr |-> 0]

(* ------------------------------- state --------------------------------- *)

VARIABLES
    value,      \* the caller's value, as its byte window
    before,     \* the window as it was when the last call started
    op,         \* the operation called last ("none" before any call)
    threw,      \* whether the last call left by throwing std::runtime_error
    shift,      \* the last call's shift argument
    index,      \* the last call's index argument
    new_byte,   \* the last call's new_byte argument
    new_bit,    \* the last call's new_bit argument
    second,     \* the last call's second value (compare_bytes)
    ret,        \* the int the last call returned
    container,  \* the caller's container, as returned by bytes_to_container
    input,      \* the elements of the range [first, last) of the last call
    restored,   \* the value restore_value returned (<<>>: none was built)
    out,        \* the text the last call wrote to std::cout
    base,       \* std::cout's basefield flag: "dec", "hex" or "oct"
    fill,       \* std::cout's fill character
    separator,  \* the last call's separator argument
    origin,     \* the window the value was constructed with
    history,    \* the mutating calls made on the value so far, in order
    bits,       \* the container bits_to_container returned last
    str,        \* the string the last call returned ("": none)
    is_pow2     \* the bool is_power_of_two returned last

argVars == <<shift, index, new_byte, new_bit>>
convVars == <<second, ret, container, input, restored>>
streamVars == <<out, base, fill, separator>>
chainVars == <<origin, history>>
queryVars == <<bits, str, is_pow2>>

vars == <<value, before, op, threw, argVars, convVars, streamVars,
          chainVars, queryVars>>

\* the entry a mutating call leaves in the history
Call(name, argument) == [op |-> name, arg |-> argument]

\* a value of some fixed-size type, before any library call is made on it
Init ==
    /\ value \in AllWindows
    /\ before = value
    /\ op = "none"
    /\ threw = FALSE
    /\ shift = 0
    /\ index = 0
    /\ new_byte = 0
    /\ new_bit = FALSE
    /\ second = value
    /\ ret = 0
    /\ container = <<>>
    /\ input = <<>>
    /\ restored = <<>>
    /\ out = ""
    /\ base = "dec"
    /\ fill = " "
    /\ separator = " "
    /\ origin = value
    /\ history = <<>>
    /\ bits = <<>>
    /\ str = ""
    /\ is_pow2 = FALSE

(* --------------------------- shift_left_bits --------------------------- *)

\* for (i = 0; i < sizeof(T) - byte_shift; ++i) ptr[i] = ptr[i + byte_shift];
RECURSIVE MoveTowardsBegin(_, _, _)
MoveTowardsBegin(ptr, byte_shift, i) ==
    IF i < SizeOf(ptr) - byte_shift
    THEN MoveTowardsBegin([ptr EXCEPT ![i] = ptr[i + byte_shift]], byte_shift, i + 1)
    ELSE ptr

\* for (i = sizeof(T) - byte_shift; i < sizeof(T); ++i) ptr[i] = 0;
ZeroTrailing(ptr, byte_shift) ==
    [i \in DOMAIN ptr |-> IF i >= SizeOf(ptr) - byte_shift THEN 0 ELSE ptr[i]]

\* the carry loop of shift_left_bits, i counting the iterations:
\* idx (index in the source) runs from sizeof(T) - 1 down to 0, reading
\* ptr[idx - 1]
RECURSIVE CarryFromLowerIndex(_, _, _)
CarryFromLowerIndex(ptr, bit_shift, i) ==
    IF i < SizeOf(ptr)
    THEN LET idx     == SizeOf(ptr) - 1 - i
             current == ptr[idx]
             next    == IF idx > 0 THEN ptr[idx - 1] ELSE 0
             cell    == ToByte(BitOr(current * Pow2(bit_shift),
                                     next \div Pow2(BITS_PER_BYTE - bit_shift)))
         IN  CarryFromLowerIndex([ptr EXCEPT ![idx] = cell], bit_shift, i + 1)
    ELSE ptr

shift_left_bits(ptr, k) ==
    IF k = 0 THEN ptr
    ELSE IF k >= SizeOf(ptr) * BITS_PER_BYTE THEN FillZero(ptr)
    ELSE LET byte_shift == k \div BITS_PER_BYTE
             bit_shift  == k % BITS_PER_BYTE
             moved == IF byte_shift > 0
                      THEN ZeroTrailing(MoveTowardsBegin(ptr, byte_shift, 0), byte_shift)
                      ELSE ptr
         IN  IF bit_shift > 0 THEN CarryFromLowerIndex(moved, bit_shift, 0) ELSE moved

(* --------------------------- shift_right_bits -------------------------- *)

\* MoveTowardsEnd with the loop running upwards, so that a cell is read
\* after it has been overwritten
RECURSIVE MoveAscending(_, _, _)
MoveAscending(ptr, byte_shift, i) ==
    IF i < SizeOf(ptr)
    THEN MoveAscending([ptr EXCEPT ![i] = ptr[i - byte_shift]], byte_shift, i + 1)
    ELSE ptr

MoveTowardsEnd_Ascending(ptr, byte_shift, i) ==
    MoveAscending(ptr, byte_shift, byte_shift)

\* for (i = sizeof(T); i-- > byte_shift; ) ptr[i] = ptr[i - byte_shift];
\* i is the value of the loop variable before the test-and-decrement
RECURSIVE MoveTowardsEnd(_, _, _)
MoveTowardsEnd(ptr, byte_shift, i) ==
    IF i > byte_shift
    THEN MoveTowardsEnd([ptr EXCEPT ![i - 1] = ptr[i - 1 - byte_shift]], byte_shift, i - 1)
    ELSE ptr

\* for (i = 0; i < byte_shift; ++i) ptr[i] = 0;
ZeroLeading(ptr, byte_shift) ==
    [i \in DOMAIN ptr |-> IF i < byte_shift THEN 0 ELSE ptr[i]]

\* the carry loop of shift_right_bits: i runs from 0 up, reading ptr[i + 1]
RECURSIVE CarryFromHigherIndex(_, _, _)
CarryFromHigherIndex(ptr, bit_shift, i) ==
    IF i < SizeOf(ptr)
    THEN LET current  == ptr[i]
             previous == IF i + 1 < SizeOf(ptr) THEN ptr[i + 1] ELSE 0
             cell     == ToByte(BitOr(current \div Pow2(bit_shift),
                                      previous * Pow2(BITS_PER_BYTE - bit_shift)))
         IN  CarryFromHigherIndex([ptr EXCEPT ![i] = cell], bit_shift, i + 1)
    ELSE ptr

shift_right_bits(ptr, k) ==
    IF k = 0 THEN ptr
    ELSE IF k >= SizeOf(ptr) * BITS_PER_BYTE THEN FillZero(ptr)
    ELSE LET byte_shift == k \div BITS_PER_BYTE
             bit_shift  == k % BITS_PER_BYTE
             moved == IF byte_shift > 0
                      THEN ZeroLeading(MoveTowardsEnd(ptr, byte_shift, SizeOf(ptr)), byte_shift)
                      ELSE ptr
         IN  IF bit_shift > 0 THEN CarryFromHigherIndex(moved, bit_shift, 0) ELSE moved

(* ----------------------- modify_byte / modify_bit ---------------------- *)

\* what a call of a mutator leaves behind: the window, and whether it threw
Returned(ptr) == [window |-> ptr, threw |-> FALSE]
Thrown(ptr)   == [window |-> ptr, threw |-> TRUE]

\* modify_byte with the range check off by one (index > sizeof(T))
modify_byte_OffByOne(ptr, i, b) ==
    IF i > SizeOf(ptr) THEN Thrown(ptr)
    ELSE Returned([c \in DOMAIN ptr |-> IF c = i THEN b ELSE ptr[c]])

modify_byte(ptr, i, b) ==
    IF i >= SizeOf(ptr) THEN Thrown(ptr)
    ELSE Returned([ptr EXCEPT ![i] = b])

\* modify_bit clearing with byte &= (1 << bit_index), the ~ forgotten
modify_bit_MaskNotInverted(ptr, i, b) ==
    IF i >= SizeOf(ptr) * BITS_PER_BYTE THEN Thrown(ptr)
    ELSE LET byte_index == i \div BITS_PER_BYTE
             bit_index  == i % BITS_PER_BYTE
             byte       == ptr[byte_index]
             changed    == IF b THEN ToByte(BitOr(byte, Pow2(bit_index)))
                           ELSE BitOf(byte, bit_index) * Pow2(bit_index)
         IN  Returned([ptr EXCEPT ![byte_index] = ToByte(changed)])

modify_bit(ptr, i, b) ==
    IF i >= SizeOf(ptr) * BITS_PER_BYTE THEN Thrown(ptr)
    ELSE LET byte_index == i \div BITS_PER_BYTE
             bit_index  == i % BITS_PER_BYTE
             byte       == ptr[byte_index]
             changed    == IF b THEN ToByte(BitOr(byte, Pow2(bit_index)))
                           ELSE ToByte(BitAndNot(byte, Pow2(bit_index)))
         IN  Returned([ptr EXCEPT ![byte_index] = ToByte(changed)])

(* ------------------- bytes_to_container / restore_value ---------------- *)

\* static_cast<short>(unsigned char): the value as a 16-bit signed integer
ToShort(x) == IF x % 65536 >= 32768 THEN (x % 65536) - 65536 ELSE x % 65536

\* bytes_to_container whose loop stops one cell early (i < sizeof(T) - 1)
RECURSIVE bytes_to_container_OneCellShort(_, _, _)
bytes_to_container_OneCellShort(ptr, c, i) ==
    IF i < SizeOf(ptr) - 1
    THEN bytes_to_container_OneCellShort(ptr, Append(c, ToShort(ptr[i])), i + 1)
    ELSE c

\* the loop of bytes_to_container<T, std::vector<short>>: *it = ... appends
\* to the container c; called with c = <<>> and i = 0
RECURSIVE bytes_to_container(_, _, _)
bytes_to_container(ptr, c, i) ==
    IF i < SizeOf(ptr)
    THEN bytes_to_container(ptr, Append(c, ToShort(ptr[i])), i + 1)
    ELSE c

\* for (i = 0; i < sizeof(T); ++i, ++first) ptr[i] = static_cast<std::byte>(*first);
\* range holds what is left of [first, last)
RECURSIVE CopyFromRange(_, _, _, _)
CopyFromRange(ptr, range, n, i) ==
    IF i < n
    THEN CopyFromRange([c \in 0 .. i |-> IF c = i THEN ToByte(Head(range)) ELSE ptr[c]],
                       Tail(range), n, i + 1)
    ELSE ptr

\* restore_value refusing a range of exactly sizeof(T) elements (<= for <)
restore_value_RejectsExactSize(n, range) ==
    IF Len(range) <= n THEN Thrown(<<>>)
    ELSE Returned(CopyFromRange(<<>>, range, n, 0))

\* restore_value<T>(first, last) with n = sizeof(T)
restore_value(n, range) ==
    IF Len(range) < n THEN Thrown(<<>>)
    ELSE Returned(CopyFromRange(<<>>, range, n, 0))

(* ----------------------------- compare_bytes --------------------------- *)

\* memcmp that leaves out the last byte (sizeof(T) - 1 for sizeof(T))
RECURSIVE memcmp_OneCellShort(_, _, _, _)
memcmp_OneCellShort(first, other, n, i) ==
    IF i >= n - 1 THEN 0
    ELSE IF first[i] # other[i] THEN first[i] - other[i]
    ELSE memcmp_OneCellShort(first, other, n, i + 1)

\* memcmp(&first, &second, n): the difference of the first pair of bytes
\* that differ, 0 when there is none; called with i = 0
RECURSIVE memcmp(_, _, _, _)
memcmp(first, other, n, i) ==
    IF i >= n THEN 0
    ELSE IF first[i] # other[i] THEN first[i] - other[i]
    ELSE memcmp(first, other, n, i + 1)

Sign(d) == IF d > 0 THEN 1 ELSE IF d < 0 THEN -1 ELSE 0

\* the standard fixes only the sign of memcmp's result
compare_bytes(first, other) ==
    LET d == memcmp(first, other, SizeOf(first), 0)
    IN  {d, Sign(d)}

(* ------------------ print_hex_bytes / _dec_ / _oct_ ------------------- *)

\* std::cout as the library uses it: the text written so far and the
\* sticky flags; the field width is reset by every formatted insertion, so
\* it is an argument of the insertion that follows std::setw
Stream(text, basefield, fillchar) ==
    [out |-> text, base |-> basefield, fill |-> fillchar]

Radix(basefield) ==
    CASE basefield = "hex" -> 16 [] basefield = "oct" -> 8 [] OTHER -> 10

DigitChar(d) ==
    CASE d = 0 -> "0" [] d = 1 -> "1" [] d = 2 -> "2" [] d = 3 -> "3"
      [] d = 4 -> "4" [] d = 5 -> "5" [] d = 6 -> "6" [] d = 7 -> "7"
      [] d = 8 -> "8" [] d = 9 -> "9" [] d = 10 -> "a" [] d = 11 -> "b"
      [] d = 12 -> "c" [] d = 13 -> "d" [] d = 14 -> "e" [] OTHER -> "f"

\* the digits of a non-negative integer in the given radix
RECURSIVE Digits(_, _)
Digits(x, radix) ==
    IF x < radix THEN DigitChar(x)
    ELSE Digits(x \div radix, radix) \o DigitChar(x % radix)

\* right-adjust text in a field of the given width
RECURSIVE Pad(_, _, _)
Pad(text, width, fillchar) ==
    IF Len(text) < width THEN Pad(fillchar \o text, width, fillchar) ELSE text

\* std::cout << text (a string, width 0)
InsertText(s, text) == [s EXCEPT !.out = s.out \o text]

\* std::cout << std::setw(width) << static_cast<short>(x), for x >= 0:
\* digits in the radix of the stream's basefield, padded with its fill
InsertShort(s, x, width) ==
    [s EXCEPT !.out = s.out \o Pad(Digits(ToShort(x), Radix(s.base)), width, s.fill)]

\* the loop of print_hex_bytes: "0x" << setw(2) << setfill('0') << hex
RECURSIVE print_hex_bytes(_, _, _, _)
print_hex_bytes(ptr, sep, s, i) ==
    IF i < SizeOf(ptr)
    THEN LET s1 == InsertText(s, "0x")
             s2 == [s1 EXCEPT !.fill = "0", !.base = "hex"]
             s3 == InsertShort(s2, ptr[i], 2)
         IN  print_hex_bytes(ptr, sep, InsertText(s3, sep), i + 1)
    ELSE s

\* the loop of print_dec_bytes: no manipulator, the stream's flags apply
RECURSIVE print_dec_bytes(_, _, _, _)
print_dec_bytes(ptr, sep, s, i) ==
    IF i < SizeOf(ptr)
    THEN print_dec_bytes(ptr, sep, InsertText(InsertShort(s, ptr[i], 0), sep), i + 1)
    ELSE s

\* the loop of print_oct_bytes: "0" << setw(3) << setfill('0') << oct
RECURSIVE print_oct_bytes(_, _, _, _)
print_oct_bytes(ptr, sep, s, i) ==
    IF i < SizeOf(ptr)
    THEN LET s1 == InsertText(s, "0")
             s2 == [s1 EXCEPT !.fill = "0", !.base = "oct"]
             s3 == InsertShort(s2, ptr[i], 3)
         IN  print_oct_bytes(ptr, sep, InsertText(s3, sep), i + 1)
    ELSE s

(* ----------- one_bit_count / zero_bit_count / is_power_of_two ---------- *)

\* x & y on non-negative ints, evaluated bit by bit
RECURSIVE BitAnd(_, _)
BitAnd(x, y) ==
    IF x = 0 \/ y = 0 THEN 0
    ELSE (IF (x % 2 = 1) /\ (y % 2 = 1) THEN 1 ELSE 0)
         + 2 * BitAnd(x \div 2, y \div 2)

\* while (byte) { count += byte & 1; byte >>= 1; }
RECURSIVE CountWhileNonZero(_, _)
CountWhileNonZero(byte, count) ==
    IF byte # 0
    THEN CountWhileNonZero(byte \div 2, count + BitAnd(byte, 1))
    ELSE count

\* the loop of one_bit_count over the cells; called with count = 0, i = 0
RECURSIVE one_bit_count(_, _, _)
one_bit_count(ptr, count, i) ==
    IF i < SizeOf(ptr)
    THEN one_bit_count(ptr, CountWhileNonZero(ptr[i], count), i + 1)
    ELSE count

\* zero_bit_count testing bits 0..6 only (j < BITS_PER_BYTE - 1)
RECURSIVE CountZeroBits_SevenBits(_, _, _)
CountZeroBits_SevenBits(byte, count, j) ==
    IF j < BITS_PER_BYTE - 1
    THEN CountZeroBits_SevenBits(byte,
             IF BitAnd(byte, Pow2(j)) = 0 THEN count + 1 ELSE count, j + 1)
    ELSE count

\* for (j = 0; j < BITS_PER_BYTE; ++j) if ((byte & (1 << j)) == 0) ++count;
RECURSIVE CountZeroBits(_, _, _)
CountZeroBits(byte, count, j) ==
    IF j < BITS_PER_BYTE
    THEN CountZeroBits(byte,
             IF BitAnd(byte, Pow2(j)) = 0 THEN count + 1 ELSE count, j + 1)
    ELSE count

\* the loop of zero_bit_count over the cells; called with count = 0, i = 0
RECURSIVE zero_bit_count(_, _, _)
zero_bit_count(ptr, count, i) ==
    IF i < SizeOf(ptr)
    THEN zero_bit_count(ptr, CountZeroBits(ptr[i], count, 0), i + 1)
    ELSE count

\* the inner loop of is_power_of_two: the count so far, and whether the
\* function has returned false from inside the loop
RECURSIVE ScanByte(_, _)
ScanByte(byte, count) ==
    IF byte # 0
    THEN LET c == count + BitAnd(byte, 1)
         IN  IF c > 1 THEN [count |-> c, returned |-> TRUE]
             ELSE ScanByte(byte \div 2, c)
    ELSE [count |-> count, returned |-> FALSE]

\* is_power_of_two with the counter declared inside the loop over the
\* cells, so that it starts from 0 in every cell
RECURSIVE is_power_of_two_CountPerCell(_, _, _)
is_power_of_two_CountPerCell(ptr, count, i) ==
    IF i < SizeOf(ptr)
    THEN LET r == ScanByte(ptr[i], 0)
         IN  IF r.returned THEN FALSE
             ELSE is_power_of_two_CountPerCell(ptr, r.count, i + 1)
    ELSE count = 1

\* is_power_of_two; called with count (one_bit_count in the source) = 0
\* and i = 0
RECURSIVE is_power_of_two(_, _, _)
is_power_of_two(ptr, count, i) ==
    IF i < SizeOf(ptr)
    THEN LET r == ScanByte(ptr[i], count)
         IN  IF r.returned THEN FALSE
             ELSE is_power_of_two(ptr, r.count, i + 1)
    ELSE count = 1

(* ------------------------------- byte_swap ----------------------------- *)

\* byte_swap with the loop running over every cell (i < sizeof(T)), which
\* swaps each pair twice
RECURSIVE byte_swap_FullLoop(_, _)
byte_swap_FullLoop(ptr, i) ==
    IF i < SizeOf(ptr)
    THEN LET j == SizeOf(ptr) - 1 - i
         IN  byte_swap_FullLoop([ptr EXCEPT ![i] = ptr[j], ![j] = ptr[i]], i + 1)
    ELSE ptr

\* for (i = 0; i < sizeof(T) / 2; ++i) std::swap(ptr[i], ptr[sizeof(T) - 1 - i]);
\* called with i = 0
RECURSIVE byte_swap(_, _)
byte_swap(ptr, i) ==
    IF i < SizeOf(ptr) \div 2
    THEN LET j == SizeOf(ptr) - 1 - i
         IN  byte_swap([ptr EXCEPT ![i] = ptr[j], ![j] = ptr[i]], i + 1)
    ELSE ptr

(* ----------------------- print_bits / bits_to_string ------------------- *)

\* std::cout << x for a non-negative int x: digits in the radix of the
\* stream's basefield, field width 0
InsertInt(s, x) ==
    [s EXCEPT !.out = s.out \o Pad(Digits(x, Radix(s.base)), 0, s.fill)]

\* for (j = BITS_PER_BYTE; j-- > 0; ) std::cout << ((byte >> j) & 1);
\* j is the value of the loop variable before the test-and-decrement
RECURSIVE PrintCellBits(_, _, _)
PrintCellBits(byte, s, j) ==
    IF j > 0
    THEN PrintCellBits(byte, InsertInt(s, BitOf(byte, j - 1)), j - 1)
    ELSE s

\* the loop of print_bits over the cells; called with i = 0
RECURSIVE print_bits(_, _, _, _)
print_bits(ptr, sep, s, i) ==
    IF i < SizeOf(ptr)
    THEN print_bits(ptr, sep,
                    InsertText(PrintCellBits(ptr[i], s, BITS_PER_BYTE), sep), i + 1)
    ELSE s

\* std::to_string(x) for a non-negative int
to_string(x) == Digits(x, 10)

\* the inner loop of bits_to_string running as print_bits' does, from
\* bit 7 down to bit 0
RECURSIVE AppendCellBits_MsbFirst(_, _, _)
AppendCellBits_MsbFirst(byte, result, j) ==
    IF j < BITS_PER_BYTE
    THEN AppendCellBits_MsbFirst(byte,
             result \o to_string(BitOf(byte, BITS_PER_BYTE - 1 - j)), j + 1)
    ELSE result

\* for (j = 0; j < BITS_PER_BYTE; ++j)
\*     result.append(std::to_string((byte >> j) & 1));
RECURSIVE AppendCellBits(_, _, _)
AppendCellBits(byte, result, j) ==
    IF j < BITS_PER_BYTE
    THEN AppendCellBits(byte, result \o to_string(BitOf(byte, j)), j + 1)
    ELSE result

\* the loop of bits_to_string over the cells; called with result = ""
\* and i = 0
RECURSIVE bits_to_string(_, _, _, _)
bits_to_string(ptr, sep, result, i) ==
    IF i < SizeOf(ptr)
    THEN bits_to_string(ptr, sep, AppendCellBits(ptr[i], result, 0) \o sep, i + 1)
    ELSE result

(* --------------------------- bits_to_container ------------------------ *)

\* conversion of an int to the bool element of std::vector<bool>
ToBool(x) == x # 0

\* the inner loop of bits_to_container running from bit 7 down to bit 0
RECURSIVE AppendBits_MsbFirst(_, _, _)
AppendBits_MsbFirst(byte, c, j) ==
    IF j < BITS_PER_BYTE
    THEN AppendBits_MsbFirst(byte,
             Append(c, ToBool(BitOf(byte, BITS_PER_BYTE - 1 - j))), j + 1)
    ELSE c

\* for (j = 0; j < BITS_PER_BYTE; ++j) *it = (byte >> j) & 1;
RECURSIVE AppendBits(_, _, _)
AppendBits(byte, c, j) ==
    IF j < BITS_PER_BYTE
    THEN AppendBits(byte, Append(c, ToBool(BitOf(byte, j))), j + 1)
    ELSE c

\* the loop of bits_to_container<T, std::vector<bool>> over the cells;
\* called with c = <<>> and i = 0
RECURSIVE bits_to_container(_, _, _)
bits_to_container(ptr, c, i) ==
    IF i < SizeOf(ptr)
    THEN bits_to_container(ptr, AppendBits(ptr[i], c, 0), i + 1)
    ELSE c

(* ------------------------------ actions -------------------------------- *)

\* the library keeps no state of its own between calls on a value: each
\* mutator is explored as one call on a freshly constructed value

ShiftArgs == 0 .. (MaxN * BITS_PER_BYTE + MaxOver)

ShiftLeftBits ==
    /\ op = "none"
    /\ \E k \in ShiftArgs :
        /\ k <= bit_count(value) + MaxOver
        /\ value' = shift_left_bits(value, k)
        /\ shift' = k
    /\ before' = value
    /\ op' = "shift_left_bits"
    /\ history' = Append(history, Call("shift_left_bits", shift'))
    /\ UNCHANGED <<threw, index, new_byte, new_bit, convVars, streamVars, origin, queryVars>>

ShiftRightBits ==
    /\ op = "none"
    /\ \E k \in ShiftArgs :
        /\ k <= bit_count(value) + MaxOver
        /\ value' = shift_right_bits(value, k)
        /\ shift' = k
    /\ before' = value
    /\ op' = "shift_right_bits"
    /\ history' = Append(history, Call("shift_right_bits", shift'))
    /\ UNCHANGED <<threw, index, new_byte, new_bit, convVars, streamVars, origin, queryVars>>

NextShift == ShiftLeftBits \/ ShiftRightBits

SpecShift == Init /\ [][NextShift]_vars

ModifyByte ==
    /\ op = "none"
    /\ \E i \in 0 .. (MaxN + MaxOver), b \in ByteVals :
        /\ i <= SizeOf(value) + MaxOver
        /\ LET r == modify_byte(value, i, b)
           IN  value' = r.window /\ threw' = r.threw
        /\ index' = i
        /\ new_byte' = b
    /\ before' = value
    /\ op' = "modify_byte"
    /\ history' = Append(history, Call("modify_byte", index'))
    /\ UNCHANGED <<shift, new_bit, convVars, streamVars, origin, queryVars>>

ModifyBit ==
    /\ op = "none"
    /\ \E i \in ShiftArgs, b \in BOOLEAN :
        /\ i <= bit_count(value) + MaxOver
        /\ LET r == modify_bit(value, i, b)
           IN  value' = r.window /\ threw' = r.threw
        /\ index' = i
        /\ new_bit' = b
    /\ before' = value
    /\ op' = "modify_bit"
    /\ history' = Append(history, Call("modify_bit", index'))
    /\ UNCHANGED <<shift, new_byte, convVars, streamVars, origin, queryVars>>

NextModify == ModifyByte \/ ModifyBit

SpecModify == Init /\ [][NextModify]_vars

BytesToContainer ==
    /\ container' = bytes_to_container(value, <<>>, 0)
    /\ before' = value
    /\ op' = "bytes_to_container"
    /\ threw' = FALSE
    /\ input' = <<>>
    /\ restored' = <<>>
    /\ UNCHANGED <<value, argVars, second, ret, streamVars, chainVars, queryVars>>

\* the caller appends an element to the container it holds
PushBack ==
    /\ container # <<>>
    /\ Len(container) < SizeOf(value) + MaxExtra
    /\ \E b \in ByteVals : container' = Append(container, ToShort(b))
    /\ op' = "push_back"
    /\ threw' = FALSE
    /\ input' = <<>>
    /\ restored' = <<>>
    /\ UNCHANGED <<value, before, argVars, second, ret, streamVars, chainVars, queryVars>>

\* restore_value<T>(container.begin(), container.begin() + n), T the type
\* of value
RestoreValue ==
    /\ \E n \in 0 .. Len(container) :
        /\ input' = SubSeq(container, 1, n)
        /\ LET r == restore_value(SizeOf(value), SubSeq(container, 1, n))
           IN  restored' = r.window /\ threw' = r.threw
    /\ before' = value
    /\ op' = "restore_value"
    /\ UNCHANGED <<value, argVars, second, ret, container, streamVars, chainVars, queryVars>>

NextConvert == BytesToContainer \/ PushBack \/ RestoreValue

SpecConvert == Init /\ [][NextConvert]_vars

\* windows to compare a value with: those differing from it in at most
\* one cell, and those built from two byte values
CompareWith(ptr) ==
    {[ptr EXCEPT ![i] = b] : i \in DOMAIN ptr, b \in ByteVals}
        \cup [DOMAIN ptr -> {0, 58}]

CompareBytes ==
    /\ \E other \in CompareWith(value) :
        /\ second' = other
        /\ ret' \in compare_bytes(value, other)
    /\ before' = value
    /\ op' = "compare_bytes"
    /\ threw' = FALSE
    /\ UNCHANGED <<value, argVars, container, input, restored, streamVars, chainVars, queryVars>>

NextCompare == CompareBytes

SpecCompare == Init /\ [][NextCompare]_vars

\* separators passed by the caller; " " is the default argument
Separators == {" ", ", "}

\* out keeps the text of the last call; the flags carry over to the next
PrintHexBytes ==
    /\ \E sep \in Separators :
        LET s == print_hex_bytes(value, sep, Stream("", base, fill), 0)
        IN  /\ out' = s.out
            /\ base' = s.base
            /\ fill' = s.fill
            /\ separator' = sep
    /\ op' = "print_hex_bytes"
    /\ before' = value
    /\ threw' = FALSE
    /\ str' = ""
    /\ UNCHANGED <<value, argVars, convVars, chainVars, bits, is_pow2>>

PrintDecBytes ==
    /\ \E sep \in Separators :
        LET s == print_dec_bytes(value, sep, Stream("", base, fill), 0)
        IN  /\ out' = s.out
            /\ base' = s.base
            /\ fill' = s.fill
            /\ separator' = sep
    /\ op' = "print_dec_bytes"
    /\ before' = value
    /\ threw' = FALSE
    /\ str' = ""
    /\ UNCHANGED <<value, argVars, convVars, chainVars, bits, is_pow2>>

PrintOctBytes ==
    /\ \E sep \in Separators :
        LET s == print_oct_bytes(value, sep, Stream("", base, fill), 0)
        IN  /\ out' = s.out
            /\ base' = s.base
            /\ fill' = s.fill
            /\ separator' = sep
    /\ op' = "print_oct_bytes"
    /\ before' = value
    /\ threw' = FALSE
    /\ str' = ""
    /\ UNCHANGED <<value, argVars, convVars, chainVars, bits, is_pow2>>

PrintBits ==
    /\ \E sep \in Separators :
        LET s == print_bits(value, sep, Stream("", base, fill), 0)
        IN  /\ out' = s.out
            /\ base' = s.base
            /\ fill' = s.fill
            /\ separator' = sep
    /\ op' = "print_bits"
    /\ before' = value
    /\ threw' = FALSE
    /\ str' = ""
    /\ UNCHANGED <<value, argVars, convVars, chainVars, bits, is_pow2>>

BitsToString ==
    /\ \E sep \in Separators :
        /\ str' = bits_to_string(value, sep, "", 0)
        /\ separator' = sep
    /\ op' = "bits_to_string"
    /\ before' = value
    /\ threw' = FALSE
    /\ out' = ""
    /\ UNCHANGED <<value, argVars, convVars, base, fill, chainVars,
                   bits, is_pow2>>

NextPrint ==
    PrintHexBytes \/ PrintDecBytes \/ PrintOctBytes \/ PrintBits \/ BitsToString

SpecPrint == Init /\ [][NextPrint]_vars

OneBitCount ==
    /\ ret' = one_bit_count(value, 0, 0)
    /\ op' = "one_bit_count"
    /\ before' = value
    /\ threw' = FALSE
    /\ UNCHANGED <<value, argVars, second, container, input, restored,
                   streamVars, chainVars, queryVars>>

ZeroBitCount ==
    /\ ret' = zero_bit_count(value, 0, 0)
    /\ op' = "zero_bit_count"
    /\ before' = value
    /\ threw' = FALSE
    /\ UNCHANGED <<value, argVars, second, container, input, restored,
                   streamVars, chainVars, queryVars>>

IsPowerOfTwo ==
    /\ is_pow2' = is_power_of_two(value, 0, 0)
    /\ op' = "is_power_of_two"
    /\ before' = value
    /\ threw' = FALSE
    /\ UNCHANGED <<value, argVars, convVars, streamVars, chainVars, bits, str>>

NextQuery == OneBitCount \/ ZeroBitCount \/ IsPowerOfTwo

SpecQuery == Init /\ [][NextQuery]_vars

ByteSwap ==
    /\ Len(history) < MaxCalls
    /\ value' = byte_swap(value, 0)
    /\ before' = value
    /\ op' = "byte_swap"
    /\ threw' = FALSE
    /\ history' = Append(history, Call("byte_swap", 0))
    /\ UNCHANGED <<argVars, convVars, streamVars, origin, queryVars>>

NextSwap == ByteSwap

SpecSwap == Init /\ [][NextSwap]_vars

BitsToContainer ==
    /\ bits' = bits_to_container(value, <<>>, 0)
    /\ op' = "bits_to_container"
    /\ before' = value
    /\ threw' = FALSE
    /\ UNCHANGED <<value, argVars, convVars, streamVars, chainVars, str, is_pow2>>

NextBits == ModifyBit \/ BitsToContainer

SpecBits == Init /\ [][NextBits]_vars

\* a shift call made on the value as the calls before it left it
ChainShiftLeftBits ==
    /\ SizeOf(value) <= MaxChainN
    /\ Len(history) < MaxCalls
    /\ \E k \in ShiftArgs :
        /\ k <= bit_count(value) + MaxOver
        /\ value' = shift_left_bits(value, k)
        /\ shift' = k
    /\ before' = value
    /\ op' = "shift_left_bits"
    /\ history' = Append(history, Call("shift_left_bits", shift'))
    /\ UNCHANGED <<threw, index, new_byte, new_bit, convVars, streamVars, origin, queryVars>>

ChainShiftRightBits ==
    /\ SizeOf(value) <= MaxChainN
    /\ Len(history) < MaxCalls
    /\ \E k \in ShiftArgs :
        /\ k <= bit_count(value) + MaxOver
        /\ value' = shift_right_bits(value, k)
        /\ shift' = k
    /\ before' = value
    /\ op' = "shift_right_bits"
    /\ history' = Append(history, Call("shift_right_bits", shift'))
    /\ UNCHANGED <<threw, index, new_byte, new_bit, convVars, streamVars, origin, queryVars>>

NextCompose == ChainShiftLeftBits \/ ChainShiftRightBits

SpecCompose == Init /\ [][NextCompose]_vars

(* ------------------------------ properties ----------------------------- *)

\* the 4-byte storage of the int 314
Bytes314 == [i \in 0 .. 3 |-> CASE i = 0 -> 58 [] i = 1 -> 1 [] OTHER -> 0]

PartialShift == 0 < shift /\ shift < bit_count(before)

\* C1: after shift_left_bits(v, k) with 0 < k < N*8 the bit at global index
\* g is the original bit at g + k when g + k < N*8 and 0 otherwise: one
\* logical shift of the whole window towards index 0.
C1_ShiftLeftIsOneLogicalShift ==
    (op = "shift_left_bits" /\ PartialShift) =>
        \A g \in 0 .. bit_count(before) - 1 :
            BitAt(value, g) = IF g + shift < bit_count(before)
                              THEN BitAt(before, g + shift) ELSE 0

\* C2: after shift_right_bits(v, k) with 0 < k < N*8 the bit at global index
\* g is the original bit at g - k when g >= k and 0 otherwise: one logical
\* shift of the whole window towards the high-index end.
C2_ShiftRightIsOneLogicalShift ==
    (op = "shift_right_bits" /\ PartialShift) =>
        \A g \in 0 .. bit_count(before) - 1 :
            BitAt(value, g) = IF g >= shift
                              THEN BitAt(before, g - shift) ELSE 0

\* C3: for k a positive multiple of 8 below N*8 and s = k/8, shift_left_bits
\* leaves cell i equal to the original cell i+s for i < N-s and zeroes cells
\* N-s..N-1; shift_right_bits leaves cell i equal to the original cell i-s
\* for i >= s and zeroes cells 0..s-1; [58,1,0,0] shifted left by 8 is
\* [1,0,0,0].
C3_WholeCellShift ==
    (PartialShift /\ shift % BITS_PER_BYTE = 0) =>
        LET s == shift \div BITS_PER_BYTE
            N == SizeOf(before)
        IN  /\ op = "shift_left_bits" =>
                    value = [i \in 0 .. N - 1 |->
                                IF i < N - s THEN before[i + s] ELSE 0]
            /\ op = "shift_right_bits" =>
                    value = [i \in 0 .. N - 1 |->
                                IF i >= s THEN before[i - s] ELSE 0]
            /\ (op = "shift_left_bits" /\ before = Bytes314 /\ shift = 8) =>
                    value = [i \in 0 .. 3 |-> IF i = 0 THEN 1 ELSE 0]

C3_Witness ==
    /\ op = "shift_left_bits"
    /\ before = Bytes314
    /\ shift = 8
    /\ value = [i \in 0 .. 3 |-> IF i = 0 THEN 1 ELSE 0]

\* C4: shift_left_bits and shift_right_bits with k >= N*8 leave every cell
\* 0, and with k = 0 leave every cell unchanged.
C4_ShiftAllOrNothing ==
    (op \in {"shift_left_bits", "shift_right_bits"}) =>
        /\ shift >= bit_count(before) =>
                (SizeOf(value) = SizeOf(before) /\ \A i \in DOMAIN value : value[i] = 0)
        /\ shift = 0 => value = before

C4_Witness ==
    /\ op = "shift_right_bits"
    /\ shift > bit_count(before)
    /\ \A i \in DOMAIN before : before[i] # 0
    /\ \A i \in DOMAIN value : value[i] = 0

\* every cell as plain decimal digits, each followed by the separator
RECURSIVE DecListing(_, _, _)
DecListing(ptr, sep, i) ==
    IF i < SizeOf(ptr)
    THEN Digits(ptr[i], 10) \o sep \o DecListing(ptr, sep, i + 1)
    ELSE ""

\* C5: whatever library calls ran before on the same std::cout,
\* print_dec_bytes(v) writes every byte as plain decimal digits followed by
\* the separator; [58,1,0,0] renders as "58 1 0 0 ".
C5_DecListingIndependentOfHistory ==
    op = "print_dec_bytes" =>
        /\ out = DecListing(value, separator, 0)
        /\ (value = Bytes314 /\ separator = " ") => out = "58 1 0 0 "

\* C6: modify_byte with index >= N and modify_bit with index >= N*8 throw
\* and leave every byte of the value as it was; in particular modify_byte
\* with index = N.
C6_RangeErrorLeavesValue ==
    /\ (op = "modify_byte" /\ index >= SizeOf(before)) =>
            (threw /\ value = before)
    /\ (op = "modify_bit" /\ index >= bit_count(before)) =>
            (threw /\ value = before)

C6_Witness ==
    /\ op = "modify_byte"
    /\ index = SizeOf(before)
    /\ \A i \in DOMAIN before : before[i] # new_byte
    /\ threw
    /\ value = before

\* C7: after modify_bit(v, i, newBit) with i < N*8 the bit at byte i/8,
\* bit-in-byte i%8 equals newBit and every other bit of the window is as it
\* was before the call.
C7_ModifyBitFrame ==
    (op = "modify_bit" /\ index < bit_count(before)) =>
        /\ ~threw
        /\ SizeOf(value) = SizeOf(before)
        /\ \A c \in DOMAIN value : value[c] \in 0 .. 255
        /\ BitOf(value[index \div 8], index % 8) = (IF new_bit THEN 1 ELSE 0)
        /\ \A g \in 0 .. bit_count(before) - 1 :
                g # index => BitAt(value, g) = BitAt(before, g)

C7_Witness ==
    /\ op = "modify_bit"
    /\ index = 15
    /\ ~new_bit
    /\ before = [i \in 0 .. 2 |-> 129]
    /\ value = [i \in 0 .. 2 |-> IF i = 1 THEN 1 ELSE 129]

\* C8: restore_value over the full range of bytes_to_container(v) returns a
\* value whose window is v's, cell for cell, and bytes_to_container(v)
\* holds exactly N elements in storage order ([58,1,0,0] for 314).
C8_ContainerRoundTrip ==
    /\ op = "bytes_to_container" =>
            /\ Len(container) = SizeOf(value)
            /\ \A i \in DOMAIN value : container[i + 1] = value[i]
            /\ value = Bytes314 => container = <<58, 1, 0, 0>>
    /\ (op = "restore_value" /\ input = bytes_to_container(value, <<>>, 0)) =>
            (~threw /\ restored = value)

C8_Witness ==
    /\ op = "restore_value"
    /\ value = Bytes314
    /\ input = <<58, 1, 0, 0>>
    /\ restored = Bytes314

\* C9: restore_value<T>(first, last) throws and constructs nothing when the
\* range holds fewer than N = sizeof(T) elements; otherwise cell i of the
\* result is the i-th element for every i < N, later elements are ignored.
C9_RestoreValue ==
    op = "restore_value" =>
        LET N == SizeOf(value)
        IN  IF Len(input) < N
            THEN threw /\ restored = <<>>
            ELSE /\ ~threw
                 /\ DOMAIN restored = 0 .. N - 1
                 /\ \A i \in 0 .. N - 1 : restored[i] = input[i + 1]

C9_Witness ==
    /\ op = "restore_value"
    /\ Len(input) = 3
    /\ SizeOf(value) = 4
    /\ threw
    /\ restored = <<>>

\* C10: compare_bytes(a, b) returns 0 if and only if the two windows are
\* identical in every cell; compare_bytes(v, v) = 0, and a difference in a
\* single cell gives a non-zero result.
C10_CompareBytesZeroIffEqual ==
    op = "compare_bytes" =>
        /\ (ret = 0) <=> (\A i \in DOMAIN value : value[i] = second[i])
        /\ value = second => ret = 0

C10_Witness ==
    /\ op = "compare_bytes"
    /\ SizeOf(value) = 4
    /\ \A i \in 0 .. 2 : value[i] = second[i]
    /\ value[3] # second[3]
    /\ ret # 0

\* the global indices of the bits of a window that are 1
SetBits(ptr) == {g \in 0 .. bit_count(ptr) - 1 : BitAt(ptr, g) = 1}

\* C11: is_power_of_two(v) is true exactly when one_bit_count(v) = 1: false
\* for the all-zero window, false when two or more bits are set (in one
\* cell or in different cells), true when exactly one bit is set.
C11_PowerOfTwoIffOneBit ==
    op = "is_power_of_two" =>
        /\ is_pow2 <=> (one_bit_count(value, 0, 0) = 1)
        /\ is_pow2 <=> (Cardinality(SetBits(value)) = 1)

C11_Witness ==
    /\ op = "is_power_of_two"
    /\ value = [i \in 0 .. 2 |-> IF i = 1 THEN 0 ELSE 1]
    /\ ~is_pow2

\* C12: one_bit_count(v) + zero_bit_count(v) = N*8 for every window v.
C12_CountsSumToBitCount ==
    /\ op = "zero_bit_count" =>
            ret + one_bit_count(value, 0, 0) = SizeOf(value) * 8
    /\ op = "one_bit_count" =>
            ret + zero_bit_count(value, 0, 0) = SizeOf(value) * 8

C12_Witness ==
    /\ op = "zero_bit_count"
    /\ value = Bytes314
    /\ one_bit_count(value, 0, 0) = 5
    /\ ret = 27

\* C13: byte_swap(v) leaves cell i equal to the original cell N-1-i for
\* every i (the middle cell of an odd-length window and the bits inside each
\* cell are unchanged), and applying byte_swap twice restores the window.
C13_ByteSwapReverses ==
    op = "byte_swap" =>
        LET N == SizeOf(before)
        IN  /\ DOMAIN value = 0 .. N - 1
            /\ \A i \in 0 .. N - 1 : value[i] = before[N - 1 - i]
            /\ N % 2 = 1 => value[N \div 2] = before[N \div 2]
            /\ ((\A c \in DOMAIN history : history[c].op = "byte_swap")
                    /\ Len(history) % 2 = 0)
                    => value = origin

C13_Witness ==
    /\ op = "byte_swap"
    /\ Len(history) = 2
    /\ origin = [i \in 0 .. 2 |-> CASE i = 0 -> 58 [] i = 1 -> 129 [] OTHER -> 1]
    /\ before = [i \in 0 .. 2 |-> CASE i = 0 -> 1 [] i = 1 -> 129 [] OTHER -> 58]
    /\ value = origin

\* bit positions of a cell, most significant first, and the reverse order
MsbFirst == [k \in 1 .. 8 |-> 8 - k]
LsbFirst == [k \in 1 .. 8 |-> MsbFirst[9 - k]]

\* the digits of one cell in the given order of bit positions
RECURSIVE CellDigits(_, _)
CellDigits(byte, order) ==
    IF order = <<>> THEN ""
    ELSE (IF BitOf(byte, Head(order)) = 1 THEN "1" ELSE "0")
         \o CellDigits(byte, Tail(order))

\* cells in storage order, each followed by the separator
RECURSIVE BitListing(_, _, _, _)
BitListing(ptr, sep, order, i) ==
    IF i < SizeOf(ptr)
    THEN CellDigits(ptr[i], order) \o sep \o BitListing(ptr, sep, order, i + 1)
    ELSE ""

\* C14: for every cell bits_to_string emits bit 0 first up to bit 7, the
\* reverse of the digits print_bits emits (bit 7 down to bit 0); both emit
\* the cells in storage order, each followed by the separator.
C14_BitOrderOfStringAndPrint ==
    /\ op = "bits_to_string" =>
            str = BitListing(value, separator, LsbFirst, 0)
    /\ op = "print_bits" =>
            out = BitListing(value, separator, MsbFirst, 0)

C14_Witness ==
    /\ op = "bits_to_string"
    /\ value = Bytes314
    /\ separator = " "
    /\ str = "01011100 10000000 00000000 00000000 "
    /\ print_bits(value, " ", Stream("", base, fill), 0).out
            = "00111010 00000001 00000000 00000000 "

\* C15: bits_to_container(v) has N*8 elements and its element at position g
\* is the bit at global bit index g (byte g/8, bit-in-byte g%8), the
\* addressing modify_bit uses: after modify_bit(v, g, b) the element at
\* position g equals b and all other elements are as before.
C15_BitsContainerAddressing ==
    op = "bits_to_container" =>
        LET total == SizeOf(value) * 8
        IN  /\ Len(bits) = total
            /\ \A g \in 0 .. total - 1 :
                    bits[g + 1] = (BitOf(value[g \div 8], g % 8) = 1)
            /\ (history = <<Call("modify_bit", index)>> /\ index < total) =>
                    LET earlier == bits_to_container(origin, <<>>, 0)
                    IN  /\ bits[index + 1] = new_bit
                        /\ \A g \in 0 .. total - 1 :
                                g # index => bits[g + 1] = earlier[g + 1]

C15_Witness ==
    /\ op = "bits_to_container"
    /\ history = <<Call("modify_bit", 9)>>
    /\ new_bit
    /\ origin = Bytes314
    /\ bits[10]
    /\ ~bits_to_container(origin, <<>>, 0)[10]

\* C16: shifts compose additively: shift_left_bits(v, a) followed by
\* shift_left_bits(v, b) leaves the window a single shift_left_bits(v, a+b)
\* leaves, and likewise for shift_right_bits.
C16_ShiftsComposeAdditively ==
    (Len(history) = 2 /\ history[1].op = history[2].op) =>
        LET a == history[1].arg
            b == history[2].arg
        IN  /\ history[2].op = "shift_left_bits" =>
                    value = shift_left_bits(origin, a + b)
            /\ history[2].op = "shift_right_bits" =>
                    value = shift_right_bits(origin, a + b)

====
